---- MODULE Spec2Model ----
(***************************************************************************)
(* Recurrence engine of projector (database/actions.go): the completion    *)
(* workflow MarkActionAsDone, the chain controller                         *)
(* CreateNextRepeatedAction, the calculator calculateNextDueDate /         *)
(* calculateNextWeeklyDate and the pattern parser parseWeeklyPattern, over *)
(* the action table of the SQLite store.                                   *)
(*                                                                         *)
(* Representation.                                                         *)
(*   - a time.Time is the number of minutes since 1970-01-01T00:00 UTC;    *)
(*   - a date text "YYYY-MM-DD" is the tuple <<y, m, d>> of its three      *)
(*     numeric fields, the empty text is <<>>; time.Parse and Format       *)
(*     convert between the two through the proleptic Gregorian calendar;   *)
(*   - a weekly pattern text is the tuple of its characters;               *)
(*   - a row of table action is a record of its columns; an INTEGER column *)
(*     that may be NULL holds <<>> for NULL and <<n>> for the number n.    *)
(***************************************************************************)
EXTENDS Integers, Sequences, FiniteSets, TLC

\* SQL NULL in a nullable INTEGER column.
NULL == <<>>

MinutesPerDay == 1440

(***************************************************************************)
(* Calendar arithmetic of package time.                                    *)
(***************************************************************************)
IsLeap(y) == (y % 4 = 0) /\ ((y % 100 # 0) \/ (y % 400 = 0))

DaysIn(y, m) ==
    IF m = 2 THEN (IF IsLeap(y) THEN 29 ELSE 28)
    ELSE IF m \in {4, 6, 9, 11} THEN 30 ELSE 31

\* Day number (days since 1970-01-01) of year c[1], month c[2] in 1..12, day
\* c[3]; the day may lie outside the month and then counts on into the
\* neighbouring months.
daysFromCivil[c \in Int \X Int \X Int] ==
    LET yy  == IF c[2] <= 2 THEN c[1] - 1 ELSE c[1]
        era == yy \div 400
        yoe == yy - era * 400
        mp  == IF c[2] > 2 THEN c[2] - 3 ELSE c[2] + 9
        doy == (153 * mp + 2) \div 5 + c[3] - 1
        doe == yoe * 365 + yoe \div 4 - yoe \div 100 + doy
    IN  era * 146097 + doe - 719468

DaysFromCivil(y, m, d) == daysFromCivil[<<y, m, d>>]

\* The civil date <<y, m, d>> of a day number.
civilFromDays[n \in Int] ==
    LET z   == n + 719468
        era == z \div 146097
        doe == z - era * 146097
        yoe == (doe - doe \div 1460 + doe \div 36524 - doe \div 146096) \div 365
        doy == doe - (365 * yoe + yoe \div 4 - yoe \div 100)
        mp  == (5 * doy + 2) \div 153
        d   == doy - (153 * mp + 2) \div 5 + 1
        m   == IF mp < 10 THEN mp + 3 ELSE mp - 9
        y   == yoe + era * 400 + (IF m <= 2 THEN 1 ELSE 0)
    IN  <<y, m, d>>

CivilFromDays(n) == civilFromDays[n]

\* time.Time.Weekday: Sunday = 0 ... Saturday = 6 (1970-01-01 was a Thursday).
Weekday(t) == ((t \div MinutesPerDay) + 4) % 7

\* time.Time.AddDate(years, months, days): the numbers are added to the fields
\* c of the civil date of t and the result is normalised (month overflow
\* carries into the year, day overflow into the following months); the time
\* of day is kept.
Normalised(c, t, years, months, days) ==
    DaysFromCivil(c[1] + years + ((c[2] - 1 + months) \div 12),
                  ((c[2] - 1 + months) % 12) + 1,
                  c[3] + days) * MinutesPerDay + (t % MinutesPerDay)

AddDate(t, years, months, days) ==
    Normalised(CivilFromDays(t \div MinutesPerDay), t, years, months, days)

\* time.Time.Add of a whole number of minutes.
AddMinutes(t, n) == t + n

\* time.Parse("2006-01-02", s): [err, t].
ParseDate(s) ==
    IF /\ Len(s) = 3
       /\ s[2] \in 1..12
       /\ s[3] \in 1..DaysIn(s[1], s[2])
    THEN [err |-> FALSE, t |-> DaysFromCivil(s[1], s[2], s[3]) * MinutesPerDay]
    ELSE [err |-> TRUE, t |-> 0]

\* time.Time.Format("2006-01-02"): the date part only, the time of day is dropped.
FormatDate(t) == CivilFromDays(t \div MinutesPerDay)

(***************************************************************************)
(* Pattern texts: tuples of characters.                                    *)
(***************************************************************************)
Upper == <<"A","B","C","D","E","F","G","H","I","J","K","L","M",
           "N","O","P","Q","R","S","T","U","V","W","X","Y","Z">>
Lower == <<"a","b","c","d","e","f","g","h","i","j","k","l","m",
           "n","o","p","q","r","s","t","u","v","w","x","y","z">>

\* strings.ToLower, character by character.
ToLowerChar(c) ==
    IF \E i \in 1..Len(Upper) : Upper[i] = c
    THEN Lower[CHOOSE i \in 1..Len(Upper) : Upper[i] = c]
    ELSE c

ToLower(s) == [i \in 1..Len(s) |-> ToLowerChar(s[i])]

\* strings.Split(s, ","): the pieces between the commas; always at least one
\* piece, the pieces may be empty.
RECURSIVE SplitComma(_)
SplitComma(s) ==
    IF \A i \in 1..Len(s) : s[i] # ","
    THEN <<s>>
    ELSE LET k == CHOOSE i \in 1..Len(s) :
                     s[i] = "," /\ \A j \in 1..(i - 1) : s[j] # ","
         IN  <<SubSeq(s, 1, k - 1)>> \o SplitComma(SubSeq(s, k + 1, Len(s)))

IsSpace(c) == c \in {" ", "\t", "\n", "\r"}

\* Mutant: the parts are not trimmed.
TrimSpace_None(s) == s

\* strings.TrimSpace: leading and trailing white space removed.
RECURSIVE TrimSpace(_)
TrimSpace(s) ==
    IF s = <<>> THEN s
    ELSE IF IsSpace(Head(s)) THEN TrimSpace(Tail(s))
    ELSE IF IsSpace(s[Len(s)]) THEN TrimSpace(SubSeq(s, 1, Len(s) - 1))
    ELSE s

\* weekdayMap of parseWeeklyPattern: the recognised tokens and their weekday.
weekdayMap ==
    { <<<<"m","o","n","d","a","y">>, 1>>, <<<<"m","o","n">>, 1>>, <<<<"m">>, 1>>,
      <<<<"t","u","e","s","d","a","y">>, 2>>, <<<<"t","u","e">>, 2>>,
      <<<<"t","u">>, 2>>, <<<<"t">>, 2>>,
      <<<<"w","e","d","n","e","s","d","a","y">>, 3>>, <<<<"w","e","d">>, 3>>,
      <<<<"w">>, 3>>,
      <<<<"t","h","u","r","s","d","a","y">>, 4>>, <<<<"t","h","u">>, 4>>,
      <<<<"t","h">>, 4>>, <<<<"r">>, 4>>,
      <<<<"f","r","i","d","a","y">>, 5>>, <<<<"f","r","i">>, 5>>, <<<<"f">>, 5>>,
      <<<<"s","a","t","u","r","d","a","y">>, 6>>, <<<<"s","a","t">>, 6>>,
      <<<<"s","a">>, 6>>, <<<<"s">>, 6>>,
      <<<<"s","u","n","d","a","y">>, 0>>, <<<<"s","u","n">>, 0>>,
      <<<<"s","u">>, 0>>, <<<<"u">>, 0>> }

\* The loop of parseWeeklyPattern: the weekday of every recognised part, in
\* the order of the parts; a part that is no key of weekdayMap adds nothing.
RECURSIVE MapParts(_)
MapParts(parts) ==
    IF parts = <<>> THEN <<>>
    ELSE LET part == TrimSpace(Head(parts))
             hit  == {e \in weekdayMap : e[1] = part}
         IN  (IF hit = {} THEN <<>> ELSE <<(CHOOSE e \in hit : TRUE)[2]>>)
             \o MapParts(Tail(parts))

\* sort.Ints: ascending, equal elements are all kept.
SortInts(days) == SortSeq(days, LAMBDA a, b : a < b)

\* parseWeeklyPattern(pattern): the sorted slice of weekday numbers.
parseWeeklyPattern(pattern) == SortInts(MapParts(SplitComma(ToLower(pattern))))

(***************************************************************************)
(* The calculator.  A result is [err, t]; err = "none" on success.         *)
(***************************************************************************)
\* Mutant: the first pattern day is looked for from the current date, not
\* from the date a week later.
NextInPattern_SameWeek(currentDate, days, currentWeekday, nextWeek) ==
    IF \E i \in 1..Len(days) : days[i] > currentWeekday
    THEN AddDate(currentDate, 0, 0,
                 days[CHOOSE k \in 1..Len(days) :
                         /\ days[k] > currentWeekday
                         /\ \A j \in 1..(k - 1) : ~(days[j] > currentWeekday)]
                 - currentWeekday)
    ELSE AddDate(currentDate, 0, 0,
                 IF days[1] - currentWeekday < 0
                 THEN days[1] - currentWeekday + 7
                 ELSE days[1] - currentWeekday)

\* Mutant: the last pattern day later in the week is taken, not the first.
NextInPattern_LastDay(currentDate, days, currentWeekday, nextWeek) ==
    IF \E i \in 1..Len(days) : days[i] > currentWeekday
    THEN AddDate(currentDate, 0, 0, days[Len(days)] - currentWeekday)
    ELSE AddDate(nextWeek, 0, 0,
                 IF days[1] - Weekday(nextWeek) < 0
                 THEN days[1] - Weekday(nextWeek) + 7
                 ELSE days[1] - Weekday(nextWeek))

\* Mutant: with no pattern day left in the week, the date a week later is
\* returned as it is.
NextInPattern_PlainWeek(currentDate, days, currentWeekday, nextWeek) ==
    IF \E i \in 1..Len(days) : days[i] > currentWeekday
    THEN AddDate(currentDate, 0, 0,
                 days[CHOOSE k \in 1..Len(days) :
                         /\ days[k] > currentWeekday
                         /\ \A j \in 1..(k - 1) : ~(days[j] > currentWeekday)]
                 - currentWeekday)
    ELSE nextWeek

\* calculateNextWeeklyDate, lines 280-299: the next date for the parsed,
\* non-empty slice days.
NextInPattern(currentDate, days, currentWeekday, nextWeek) ==
    IF \E i \in 1..Len(days) : days[i] > currentWeekday
    THEN AddDate(currentDate, 0, 0,
                 days[CHOOSE k \in 1..Len(days) :
                         /\ days[k] > currentWeekday
                         /\ \A j \in 1..(k - 1) : ~(days[j] > currentWeekday)]
                 - currentWeekday)
    ELSE AddDate(nextWeek, 0, 0,
                 IF days[1] - Weekday(nextWeek) < 0
                 THEN days[1] - Weekday(nextWeek) + 7
                 ELSE days[1] - Weekday(nextWeek))

\* calculateNextWeeklyDate, lines 275-299, for the parsed slice days.
NextForDays(currentDate, days) ==
    IF Len(days) = 0 THEN AddDate(currentDate, 0, 0, 7)
    ELSE NextInPattern(currentDate, days, Weekday(currentDate),
                       AddDate(currentDate, 0, 0, 7))

calculateNextWeeklyDate(currentDate, pattern) ==
    IF pattern = <<>> THEN AddDate(currentDate, 0, 0, 7)
    ELSE NextForDays(currentDate, parseWeeklyPattern(pattern))

\* calculateNextDueDate, lines 249-264: the switch on the interval, for the
\* parsed date.
NextByInterval(date, interval, pattern) ==
    CASE interval = "minute" -> [err |-> "none", t |-> AddMinutes(date, 1)]
      [] interval = "hour"   -> [err |-> "none", t |-> AddMinutes(date, 60)]
      [] interval = "day"    -> [err |-> "none", t |-> AddDate(date, 0, 0, 1)]
      [] interval = "week"   ->
            [err |-> "none", t |-> calculateNextWeeklyDate(date, pattern)]
      [] interval = "month"  -> [err |-> "none", t |-> AddDate(date, 0, 1, 0)]
      [] interval = "year"   -> [err |-> "none", t |-> AddDate(date, 1, 0, 0)]
      [] OTHER               -> [err |-> "invalid interval", t |-> 0]

\* Mutant: the error of time.Parse is not looked at.
NextFromParsed_Unchecked(p, interval, pattern) ==
    NextByInterval(p.t, interval, pattern)

\* calculateNextDueDate, lines 244-264, for the result p of time.Parse.
NextFromParsed(p, interval, pattern) ==
    IF p.err THEN [err |-> "parse error", t |-> 0]
    ELSE NextByInterval(p.t, interval, pattern)

calculateNextDueDate(currentDueDate, interval, pattern) ==
    IF currentDueDate = <<>>
    THEN [err |-> "no current due date", t |-> 0]
    ELSE NextFromParsed(ParseDate(currentDueDate), interval, pattern)

(***************************************************************************)
(* Bounds and inputs of the model.                                         *)
(***************************************************************************)
\* Rows the action table may hold.
MaxActions == 3
\* Largest repeat_count of a directly created action.
MaxRepeat == 2
\* Days the clock may advance.
MaxTick == 1

\* The day the clock starts on: 2024-12-30, a Monday.
StartDay == DaysFromCivil(2024, 12, 30)

\* Concurrent callers of MarkActionAsDone.
Procs == {"p1", "p2"}

MonWedFri == <<"m","o","n",",","w","e","d",",","f","r","i">>

\* Status ids of table status: 1 is 'todo', 2 is 'done'.
TodoStatus == 1
DoneStatus == 2

\* Request bodies of PUT /api/actions.
Names == {"", "report"}
DueDates == {<<>>, <<2024, 12, 30>>, <<2024, 12, 29>>, <<2025, 2, 30>>}
Repeats == { <<"", <<>>>>, <<"minute", <<>>>>, <<"hour", <<>>>>, <<"day", <<>>>>,
             <<"week", <<>>>>, <<"week", MonWedFri>>, <<"month", <<>>>>,
             <<"year", <<>>>>, <<"fortnight", <<>>>> }
Untils == {<<>>, <<2025, 1, 1>>}
StatusIDs == {0, TodoStatus, DoneStatus}

(***************************************************************************)
(* State.                                                                  *)
(***************************************************************************)
VARIABLES
    action,   \* table action: id -> row
    seq,      \* the AUTOINCREMENT counter of table action: the last id given out
    today,    \* day number of time.Now()
    proc,     \* each caller's position in MarkActionAsDone and its local variables
    last,     \* outcome of the call that finished last
    project,  \* table project: id -> row
    task,     \* table task of the tasks API: id -> row
    web,      \* the request the HTTP server answered last, and its response
    m,        \* the ui.Model of projector init
    cmd,      \* the tea.Cmd the last Update returned, not yet run
    msgs      \* history: the results delivered to Update, oldest first

\* The state of the HTTP server beside table action, and of projector init.
serverVars == <<project, task, web>>
uiVars == <<m, cmd, msgs>>

vars == <<action, seq, today, proc, last, serverVars, uiVars>>

\* A nil *Action.
NilAction == [ID |-> 0]

Idle == [pc |-> "idle", id |-> 0, snap |-> NilAction]

\* last: op is the operation, id its argument (the new id for a creation),
\* ret what the caller got, warn the logged error of the recurrence step,
\* newID the id of the row it inserted and snap the action it had read, for a
\* call that reached the recurrence step.
NoCall == [op |-> "none", id |-> 0, ret |-> "none", warn |-> "none",
           newID |-> 0, snap |-> NilAction]

\* web: the handler the mux chose, the request's method, path and body, the
\* response's status, and the database function the handler called with its
\* id argument.  Before the first request there is the handler "none" only.
NoRequest == [handler |-> "none"]

\* No request has been served.
ServerStart ==
    /\ project = <<>>
    /\ task = <<>>
    /\ web = NoRequest

\* A models.Result: what the step reports and the table it is about.
Result(kind, table) == [kind |-> kind, table |-> table]

maxResults == 5

\* NewModel: the results prefilled with dots.
NewModel ==
    [results    |-> [i \in 1..maxResults |-> Result("dots", "")],
     quitting   |-> FALSE,
     step       |-> 0,
     tableIndex |-> 0,
     schemaMode |-> FALSE]

\* A tea.Cmd: the step function and its tableIndex argument.
Cmd(name, tableIndex) == [name |-> name, tableIndex |-> tableIndex]

\* projector init is not running: no Model, no command, no result.
NoModel == [step |-> 0]

UiOff ==
    /\ m = NoModel
    /\ cmd = Cmd("none", 0)
    /\ msgs = <<>>

\* tea.NewProgram(NewModel()) with Model.Init: runInitStep is issued.
UiStart ==
    /\ m = NewModel
    /\ cmd = Cmd("runInitStep", 0)
    /\ msgs = <<>>

\* database/sql scanning a TEXT or DATE column into a sql.NullString.  The
\* INSERT of CreateAction binds a Go string to every text column, so no row
\* holds NULL there.
NullString(v) == [String |-> v, Valid |-> TRUE]

\* database/sql scanning an INTEGER column into a sql.NullInt64.
NullInt64(v) ==
    IF v = NULL THEN [Int64 |-> 0, Valid |-> FALSE]
    ELSE [Int64 |-> v[1], Valid |-> TRUE]

\* GetActionByID: the Action struct scanned from row id, nil when no row has
\* that id.
GetActionByID(id) ==
    IF id \notin DOMAIN action THEN NilAction
    ELSE LET r == action[id] IN
         [ID             |-> id,
          ProjectID      |-> NullInt64(r.project_id),
          Name           |-> r.name,
          Note           |-> NullString(r.note),
          DueDate        |-> NullString(r.due_date),
          StatusID       |-> r.status_id,
          RepeatCount    |-> r.repeat_count,
          RepeatInterval |-> NullString(r.repeat_interval),
          RepeatPattern  |-> NullString(r.repeat_pattern),
          RepeatUntil    |-> NullString(r.repeat_until),
          ParentActionID |-> NullInt64(r.parent_action_id)]

\* ValidateDate(dateStr): [err, date]; ValidateParsed is its part after
\* time.Parse, on the result p of the parse.
ValidateParsed(p) ==
    IF p.err THEN [err |-> "invalid date format", date |-> <<>>]
    ELSE IF p.t < today * MinutesPerDay
         THEN [err |-> "date is in the past", date |-> <<>>]
         ELSE [err |-> "none", date |-> FormatDate(p.t)]

ValidateDate(dateStr) ==
    IF dateStr = <<>> THEN [err |-> "none", date |-> <<>>]
    ELSE ValidateParsed(ParseDate(dateStr))

MaxNameLen == 255

\* ValidateActionInput(name, projectID, dueDate, statusID): the error, "none"
\* when the input is accepted.
ValidateActionInput(name, projectID, dueDate, statusID) ==
    IF name = "" THEN "action name is required"
    ELSE IF Len(name) > MaxNameLen THEN "action name is too long"
    ELSE IF statusID <= 0 THEN "invalid status ID"
    ELSE IF dueDate # <<>> /\ ValidateDate(dueDate).err # "none"
         THEN "due date validation failed"
    ELSE "none"

\* CreateAction after the two validations (lines 160-187), verr and vd being
\* their results.  dbFail: the INSERT itself fails.  On success the row gets
\* the next AUTOINCREMENT id.
InsertAction(verr, vd, name, note, projectID, statusID, repeatCount, repeatInterval, repeatPattern, repeatUntil, parentActionID, dbFail) ==
    IF verr # "none" THEN [err |-> verr, id |-> 0, row |-> <<>>]
    ELSE IF vd.err # "none" THEN [err |-> vd.err, id |-> 0, row |-> <<>>]
    ELSE IF dbFail THEN [err |-> "insert failed", id |-> 0, row |-> <<>>]
    ELSE [err |-> "none",
          id  |-> seq + 1,
          row |-> [project_id       |-> projectID,
                   name             |-> name,
                   note             |-> note,
                   due_date         |-> vd.date,
                   status_id        |-> statusID,
                   repeat_count     |-> repeatCount,
                   repeat_interval  |-> repeatInterval,
                   repeat_pattern   |-> repeatPattern,
                   repeat_until     |-> repeatUntil,
                   parent_action_id |-> parentActionID]]

\* CreateAction: [err, id, row].
CreateAction(name, note, projectID, dueDate, statusID, repeatCount, repeatInterval, repeatPattern, repeatUntil, parentActionID, dbFail) ==
    InsertAction(ValidateActionInput(name, projectID, dueDate, statusID),
                 ValidateDate(dueDate),
                 name, note, projectID, statusID, repeatCount, repeatInterval,
                 repeatPattern, repeatUntil, parentActionID, dbFail)

(***************************************************************************)
(* The chain controller.                                                   *)
(***************************************************************************)
\* Mutant: the precondition tests the interval only.
Unconfigured_IntervalOnly(originalAction) ==
    originalAction.RepeatInterval.String = ""

\* The precondition of CreateNextRepeatedAction (line 192).
Unconfigured(originalAction) ==
    originalAction.RepeatCount <= 0 \/ originalAction.RepeatInterval.String = ""

\* Mutant: the repeat-until check is skipped.
LimitReached_Never(originalAction, nextDueDate) == FALSE

\* Mutant: a next due date on the repeat-until date is refused too.
LimitReached_AtOrAfter(originalAction, nextDueDate) ==
    /\ originalAction.RepeatUntil.Valid
    /\ originalAction.RepeatUntil.String # <<>>
    /\ ~ParseDate(originalAction.RepeatUntil.String).err
    /\ nextDueDate >= ParseDate(originalAction.RepeatUntil.String).t

\* The repeat-until check of CreateNextRepeatedAction (lines 203-208): an
\* until text that does not parse ends nothing.
LimitReached(originalAction, nextDueDate) ==
    /\ originalAction.RepeatUntil.Valid
    /\ originalAction.RepeatUntil.String # <<>>
    /\ ~ParseDate(originalAction.RepeatUntil.String).err
    /\ nextDueDate > ParseDate(originalAction.RepeatUntil.String).t

\* CreateNextRepeatedAction up to the decision (lines 192-208): [err, next],
\* next being the computed nextDueDate when err = "none".  Decide is its part
\* after calculateNextDueDate, on the result n of that call.
Decide(originalAction, n) ==
    IF n.err # "none" THEN [err |-> n.err, next |-> 0]
    ELSE IF LimitReached(originalAction, n.t)
         THEN [err |-> "repetition limit reached", next |-> 0]
         ELSE [err |-> "none", next |-> n.t]

Advance(originalAction) ==
    IF Unconfigured(originalAction)
    THEN [err |-> "action is not configured for repetition", next |-> 0]
    ELSE Decide(originalAction,
                calculateNextDueDate(originalAction.DueDate.String,
                                     originalAction.RepeatInterval.String,
                                     originalAction.RepeatPattern.String))

\* The status_id CreateNextRepeatedAction hands to CreateAction (line 223).
NextStatusID(originalAction) == originalAction.StatusID

\* Mutant: the repeat count is copied, not decreased.
NextRepeatCount_Copied(originalAction) == originalAction.RepeatCount

\* The repeat_count CreateNextRepeatedAction hands to CreateAction (line 224).
NextRepeatCount(originalAction) == originalAction.RepeatCount - 1

\* The due date text CreateNextRepeatedAction hands to CreateAction (line 222).
NextDueDateText(nextDueDate) == FormatDate(nextDueDate)

\* Mutant: the project is not handed on.
NextProjectID_Dropped(originalAction) == NULL

\* The project id CreateNextRepeatedAction hands to CreateAction (lines
\* 211-215): a pointer to the action's project id, nil when it has none.
NextProjectID(originalAction) ==
    IF originalAction.ProjectID.Valid
    THEN <<originalAction.ProjectID.Int64>> ELSE NULL

\* Mutant: the id after the action's is handed on as the parent.
NextParentID_Off(originalAction) == <<originalAction.ID + 1>>

\* The parent id CreateNextRepeatedAction hands to CreateAction (line 228).
NextParentID(originalAction) == <<originalAction.ID>>

\* CreateNextRepeatedAction after the decision a (lines 210-235).
CreateDecided(originalAction, a, dbFail) ==
    IF a.err # "none" THEN [err |-> a.err, id |-> 0, row |-> <<>>]
    ELSE CreateAction(
            originalAction.Name,
            originalAction.Note.String,
            NextProjectID(originalAction),
            NextDueDateText(a.next),
            NextStatusID(originalAction),
            NextRepeatCount(originalAction),
            originalAction.RepeatInterval.String,
            originalAction.RepeatPattern.String,
            originalAction.RepeatUntil.String,
            NextParentID(originalAction),
            dbFail)

\* CreateNextRepeatedAction(originalAction): [err, id, row].
CreateNextRepeatedAction(originalAction, dbFail) ==
    CreateDecided(originalAction, Advance(originalAction), dbFail)

\* The guard of MarkActionAsDone on the recurrence step (line 353).
RepetitionConfigured(a) == a.RepeatCount > 0 /\ a.RepeatInterval.Valid

(***************************************************************************)
(* Operations.                                                             *)
(***************************************************************************)
Init ==
    /\ action = <<>>
    /\ seq = 0
    /\ today = StartDay
    /\ proc = [p \in Procs |-> Idle]
    /\ last = NoCall
    /\ ServerStart
    /\ UiOff

\* handleActions, PUT /api/actions: a directly created action.  The model
\* follows the chain of one directly created action.
PutAction(name, dueDate, rep, until, statusID, repeatCount, dbFail) ==
    /\ DOMAIN action = {}
    /\ seq < MaxActions
    /\ \E c \in {IF name = ""
                 THEN [err |-> "Action name is required", id |-> 0, row |-> <<>>]
                 ELSE CreateAction(name, "note", NULL, dueDate,
                                   IF statusID = 0 THEN TodoStatus ELSE statusID,
                                   repeatCount, rep[1], rep[2], until, NULL, dbFail)} :
           /\ action' = IF c.err = "none" THEN (c.id :> c.row) ELSE action
           /\ seq' = IF c.err = "none" THEN c.id ELSE seq
           /\ last' = [op |-> "create", id |-> c.id,
                       ret |-> IF c.err = "none" THEN "ok" ELSE "error",
                       warn |-> "none", newID |-> c.id, snap |-> NilAction]
    /\ UNCHANGED <<today, proc>>
    /\ UNCHANGED <<serverVars, uiVars>>

\* Mutant: the nil test is lost.
IsNil_Never(a) == FALSE

\* The test action == nil of MarkActionAsDone (line 342).
IsNil(a) == a = NilAction

\* Mutant: the error of the recurrence step is returned.
DoneReturn_Propagated(err) == IF err = "none" THEN "ok" ELSE "error"

\* What MarkActionAsDone returns after the recurrence step (lines 355-361):
\* the step's error is printed, the call returns nil.
DoneReturn(err) == "ok"

\* Callers inside MarkActionAsDone.
InFlight == {p \in Procs : proc[p].pc # "idle"}

\* MarkActionAsDone, lines 331-344: the action is read.  A read error and an
\* unknown id end the call.
Read(p, id, dbFail) ==
    /\ proc[p].pc = "idle"
    /\ \E a \in {GetActionByID(id)} :
       IF dbFail \/ IsNil(a)
       THEN /\ last' = [op |-> "done", id |-> id,
                        ret |-> IF dbFail THEN "read failed" ELSE "action not found",
                        warn |-> "none", newID |-> 0, snap |-> NilAction]
            /\ proc' = proc
       ELSE /\ proc' = [proc EXCEPT ![p] = [pc |-> "loaded", id |-> id, snap |-> a]]
            /\ last' = last
    /\ UNCHANGED <<action, seq, today>>
    /\ UNCHANGED <<serverVars, uiVars>>

\* A call of MarkActionAsDone begins, while the table has room for the rows
\* the calls in flight may insert.
Load(p, id, dbFail) ==
    /\ seq + Cardinality(InFlight) < MaxActions
    /\ Read(p, id, dbFail)

\* Mutant: a failed status write does not end the call.
UpdateStatus_ErrorIgnored(p, dbFail) ==
    /\ proc[p].pc = "loaded"
    /\ action' = IF dbFail THEN action
                 ELSE [action EXCEPT ![proc[p].id].status_id = DoneStatus]
    /\ proc' = [proc EXCEPT ![p].pc = "updated"]
    /\ last' = last
    /\ UNCHANGED <<seq, today>>
    /\ UNCHANGED <<serverVars, uiVars>>

\* Mutant: the status write also counts the repetition down on the action.
UpdateStatus_CountDown(p, dbFail) ==
    /\ proc[p].pc = "loaded"
    /\ IF dbFail
       THEN /\ last' = [op |-> "done", id |-> proc[p].id, ret |-> "update failed",
                        warn |-> "none", newID |-> 0, snap |-> NilAction]
            /\ proc' = [proc EXCEPT ![p] = Idle]
            /\ action' = action
       ELSE /\ action' = [action EXCEPT ![proc[p].id].status_id = DoneStatus,
                                        ![proc[p].id].repeat_count =
                                            IF @ > 0 THEN @ - 1 ELSE @]
            /\ proc' = [proc EXCEPT ![p].pc = "updated"]
            /\ last' = last
    /\ UNCHANGED <<seq, today>>
    /\ UNCHANGED <<serverVars, uiVars>>

\* Mutant: the status write is left out.
UpdateStatus_Skipped(p, dbFail) ==
    /\ proc[p].pc = "loaded"
    /\ IF dbFail
       THEN /\ last' = [op |-> "done", id |-> proc[p].id, ret |-> "update failed",
                        warn |-> "none", newID |-> 0, snap |-> NilAction]
            /\ proc' = [proc EXCEPT ![p] = Idle]
       ELSE /\ proc' = [proc EXCEPT ![p].pc = "updated"]
            /\ last' = last
    /\ UNCHANGED <<action, seq, today>>
    /\ UNCHANGED <<serverVars, uiVars>>

\* Mutant: the status write toggles the status.
UpdateStatus_Toggled(p, dbFail) ==
    /\ proc[p].pc = "loaded"
    /\ IF dbFail
       THEN /\ last' = [op |-> "done", id |-> proc[p].id, ret |-> "update failed",
                        warn |-> "none", newID |-> 0, snap |-> NilAction]
            /\ proc' = [proc EXCEPT ![p] = Idle]
            /\ action' = action
       ELSE /\ action' = [action EXCEPT ![proc[p].id].status_id =
                             IF @ = DoneStatus THEN TodoStatus ELSE DoneStatus]
            /\ proc' = [proc EXCEPT ![p].pc = "updated"]
            /\ last' = last
    /\ UNCHANGED <<seq, today>>
    /\ UNCHANGED <<serverVars, uiVars>>

\* MarkActionAsDone, lines 346-350: UPDATE action SET status_id = 2.
UpdateStatus(p, dbFail) ==
    /\ proc[p].pc = "loaded"
    /\ IF dbFail
       THEN /\ last' = [op |-> "done", id |-> proc[p].id, ret |-> "update failed",
                        warn |-> "none", newID |-> 0, snap |-> NilAction]
            /\ proc' = [proc EXCEPT ![p] = Idle]
            /\ action' = action
       ELSE /\ action' = [action EXCEPT ![proc[p].id].status_id = DoneStatus]
            /\ proc' = [proc EXCEPT ![p].pc = "updated"]
            /\ last' = last
    /\ UNCHANGED <<seq, today>>
    /\ UNCHANGED <<serverVars, uiVars>>

\* MarkActionAsDone, lines 352-361: the recurrence step on the action as read,
\* its error only logged, and the return of nil.
Chain(p, dbFail) ==
    /\ proc[p].pc = "updated"
    /\ \E c \in {IF RepetitionConfigured(proc[p].snap)
                 THEN CreateNextRepeatedAction(proc[p].snap, dbFail)
                 ELSE [err |-> "none", id |-> 0, row |-> <<>>]} :
           /\ action' = IF c.id # 0 THEN action @@ (c.id :> c.row) ELSE action
           /\ seq' = IF c.id # 0 THEN c.id ELSE seq
           /\ last' = [op |-> "done", id |-> proc[p].id, ret |-> DoneReturn(c.err),
                       warn |-> c.err, newID |-> c.id, snap |-> proc[p].snap]
    /\ proc' = [proc EXCEPT ![p] = Idle]
    /\ UNCHANGED today
    /\ UNCHANGED <<serverVars, uiVars>>

\* The process stops between the status write and the recurrence step.
Fault(p) ==
    /\ proc[p].pc = "updated"
    /\ proc' = [proc EXCEPT ![p] = Idle]
    /\ last' = [op |-> "done", id |-> proc[p].id, ret |-> "fault",
                warn |-> "none", newID |-> 0, snap |-> NilAction]
    /\ UNCHANGED <<action, seq, today>>
    /\ UNCHANGED <<serverVars, uiVars>>

\* A day passes.
Tick ==
    /\ today < StartDay + MaxTick
    /\ today' = today + 1
    /\ UNCHANGED <<action, seq, proc, last>>
    /\ UNCHANGED <<serverVars, uiVars>>

Next ==
    \/ /\ DOMAIN action = {}
       /\ \E name \in Names, dueDate \in DueDates, rep \in Repeats, until \in Untils,
             statusID \in StatusIDs, repeatCount \in 0..MaxRepeat, dbFail \in BOOLEAN :
             PutAction(name, dueDate, rep, until, statusID, repeatCount, dbFail)
    \/ \E p \in Procs, id \in 1..(seq + 1), dbFail \in BOOLEAN : Load(p, id, dbFail)
    \/ \E p \in Procs, dbFail \in BOOLEAN : UpdateStatus(p, dbFail)
    \/ \E p \in Procs, dbFail \in BOOLEAN : Chain(p, dbFail)
    \/ \E p \in Procs : Fault(p)
    \/ Tick

Spec == Init /\ [][Next]_vars

(***************************************************************************)
(* One chain followed in sequence: a stored recurring action, and a single *)
(* caller that completes rows of its chain one call after the other.       *)
(***************************************************************************)
\* Rows a chain may hold.
MaxChain == 4

WorkWeek == <<"m","o","n",",","t","u","e",",","w","e","d",",",
              "t","h","u",",","f","r","i">>
MWF == <<"m",",","w",",","f">>
TuesdayThursday == <<"T","u","e","s","d","a","y",","," ",
                     "T","h","u","r","s","d","a","y">>
XyzMon == <<"x","y","z",",","m","o","n">>
Letters == <<"t",",","r",",","s",",","u">>
Xyz == <<"x","y","z">>
Fri == <<"f","r","i">>
MM == <<"m",",","m">>

\* The seven days from Monday 2024-12-30 to Sunday 2025-01-05.
Anchors == { <<2024, 12, 30>>, <<2024, 12, 31>>, <<2025, 1, 1>>, <<2025, 1, 2>>,
             <<2025, 1, 3>>, <<2025, 1, 4>>, <<2025, 1, 5>> }

\* Interval and pattern of the stored action.
ChainRepeats ==
    { <<"minute", <<>>>>, <<"hour", <<>>>>, <<"day", <<>>>>, <<"week", <<>>>>,
      <<"month", <<>>>>, <<"year", <<>>>>,
      <<"week", MonWedFri>>, <<"week", WorkWeek>>, <<"week", MWF>>,
      <<"week", TuesdayThursday>>, <<"week", XyzMon>>, <<"week", Letters>>,
      <<"week", Xyz>>, <<"week", Fri>>, <<"week", MM>> }

ChainCounts == {10}
\* Project and repeat-until date of the stored action: neither, or both.
ChainExtras == { <<NULL, <<>>>>, <<<<1>>, <<2025, 2, 1>>>> }

\* The only caller.
Caller == "p1"

\* The table holds one action, created by an earlier PUT /api/actions.
InitChain ==
    /\ \E dueDate \in Anchors, rep \in ChainRepeats, repeatCount \in ChainCounts,
          extra \in ChainExtras :
          action = (1 :> [project_id       |-> extra[1],
                          name             |-> "report",
                          note             |-> "note",
                          due_date         |-> dueDate,
                          status_id        |-> TodoStatus,
                          repeat_count     |-> repeatCount,
                          repeat_interval  |-> rep[1],
                          repeat_pattern   |-> rep[2],
                          repeat_until     |-> extra[2],
                          parent_action_id |-> NULL])
    /\ seq = 1
    /\ today = StartDay
    /\ proc = [p \in Procs |-> Idle]
    /\ last = NoCall
    /\ ServerStart
    /\ UiOff

\* The caller begins MarkActionAsDone on a row of the chain.
Begin(id) ==
    /\ seq < MaxChain
    /\ Read(Caller, id, FALSE)

NextChain ==
    \/ \E id \in 1..seq : Begin(id)
    \/ UpdateStatus(Caller, FALSE)
    \/ Chain(Caller, FALSE)
    \/ Fault(Caller)

SpecChain == InitChain /\ [][NextChain]_vars

(***************************************************************************)
(* The HTTP server: the by-ID routes of the actions API (package api) and  *)
(* of the tasks API before it (src/api/server.go).                         *)
(***************************************************************************)
\* The ids of the rows each table holds when the server starts.
MaxID == 2

\* The patterns registered with http.HandleFunc.
ActionPattern == <<"/","a","p","i","/","a","c","t","i","o","n","s","/">>
ProjectPattern == <<"/","a","p","i","/","p","r","o","j","e","c","t","s","/">>
TaskPattern == <<"/","a","p","i","/","t","a","s","k","s","/">>

\* The prefix lengths the handlers cut off the path.
ActionPrefixLen == 13
ProjectPrefixLen == 15
TaskPrefixLen == 12

Digits == <<"0", "1", "2", "3", "4", "5", "6", "7", "8", "9">>

IsDigit(c) == \E i \in 1..10 : Digits[i] = c

DigitVal(c) == (CHOOSE i \in 1..10 : Digits[i] = c) - 1

\* strconv.Itoa for n >= 0: the decimal text of the ids in request paths.
RECURSIVE Itoa(_)
Itoa(n) == IF n < 10 THEN <<Digits[n + 1]>> ELSE Itoa(n \div 10) \o <<Digits[(n % 10) + 1]>>

\* The value of a text of digits.
RECURSIVE DigitsValue(_)
DigitsValue(s) ==
    IF s = <<>> THEN 0
    ELSE 10 * DigitsValue(SubSeq(s, 1, Len(s) - 1)) + DigitVal(s[Len(s)])

\* strconv.ParseUint(s, 10, 32): an error for the empty text and for a text
\* that holds anything but digits.  The texts here have at most two digits,
\* so the 32-bit range is never left.
ParseUint(s) ==
    IF s = <<>> \/ \E i \in 1..Len(s) : ~IsDigit(s[i]) THEN [err |-> TRUE, n |-> 0]
    ELSE [err |-> FALSE, n |-> DigitsValue(s)]

\* Go's path[n:], for n <= len(path).
Drop(path, n) == SubSeq(path, n + 1, Len(path))

HasPrefix(path, prefix) ==
    Len(path) >= Len(prefix) /\ SubSeq(path, 1, Len(prefix)) = prefix

\* http.ServeMux: a pattern ending in a slash matches every path it begins.
Handler(path) ==
    IF HasPrefix(path, ActionPattern) THEN "handleActionByID"
    ELSE IF HasPrefix(path, ProjectPattern) THEN "handleProjectByID"
    ELSE IF HasPrefix(path, TaskPattern) THEN "handleTaskByID"
    ELSE "NotFound"

\* The ids requests name: the stored ids and a two-digit id that ends in one.
RequestIDs == (1..MaxID) \cup {10 + MaxID}

\* What follows the pattern in a request path: nothing, or a decimal id.
IDTexts == {<<>>} \cup {Itoa(n) : n \in RequestIDs}

Paths(pattern) == {pattern \o t : t \in IDTexts}

Methods == {"GET", "PUT", "DELETE", "POST"}

\* The action field of a PUT body.
Bodies == {"done", "undo"}

\* The response and the database call of a request.
Reply(handler, method, path, body, code, op, id) ==
    [handler |-> handler, method |-> method, path |-> path, body |-> body,
     code |-> code, op |-> op, id |-> id]

\* Table t without row id.
Without(t, id) == [k \in (DOMAIN t) \ {id} |-> t[k]]

\* handleProjectByID after strconv.ParseUint gave p: GetProjectByID or
\* DeleteProject on projectIDUint; DeleteProject fails on an unknown id.
ProjectByParsed(method, path, p) ==
    IF p.err
    THEN [web |-> Reply("handleProjectByID", method, path, "", "400", "none", 0),
          project |-> project]
    ELSE IF method = "GET"
    THEN [web |-> Reply("handleProjectByID", method, path, "",
                        IF p.n \in DOMAIN project THEN "200" ELSE "404",
                        "GetProjectByID", p.n),
          project |-> project]
    ELSE IF method = "DELETE"
    THEN [web |-> Reply("handleProjectByID", method, path, "",
                        IF p.n \in DOMAIN project THEN "200" ELSE "500",
                        "DeleteProject", p.n),
          project |-> Without(project, p.n)]
    ELSE [web |-> Reply("handleProjectByID", method, path, "", "405", "none", 0),
          project |-> project]

\* handleProjectByID: the id is what follows the first 15 characters.
ProjectByID(method, path) ==
    IF Len(path) < ProjectPrefixLen
    THEN [web |-> Reply("handleProjectByID", method, path, "", "400", "none", 0),
          project |-> project]
    ELSE ProjectByParsed(method, path, ParseUint(Drop(path, ProjectPrefixLen)))

handleProjectByID(method, path) ==
    /\ Handler(path) = "handleProjectByID"
    /\ \E r \in {ProjectByID(method, path)} :
          /\ web' = r.web
          /\ project' = r.project
    /\ UNCHANGED <<action, seq, today, proc, last, task, uiVars>>

\* MarkTaskAsDone on a task that does not repeat: the status write.
MarkTaskAsDone(id) ==
    IF id \notin DOMAIN task THEN task
    ELSE [task EXCEPT ![id].status_id = DoneStatus]

\* handleTaskByID after strconv.ParseUint gave p.
TaskByParsed(method, path, body, p) ==
    IF p.err
    THEN [web |-> Reply("handleTaskByID", method, path, body, "400", "none", 0),
          task |-> task]
    ELSE IF method = "GET"
    THEN [web |-> Reply("handleTaskByID", method, path, body,
                        IF p.n \in DOMAIN task THEN "200" ELSE "404",
                        "GetTaskByID", p.n),
          task |-> task]
    ELSE IF method = "DELETE"
    THEN [web |-> Reply("handleTaskByID", method, path, body,
                        IF p.n \in DOMAIN task THEN "200" ELSE "500",
                        "DeleteTask", p.n),
          task |-> Without(task, p.n)]
    ELSE IF method = "PUT" /\ body = "done"
    THEN [web |-> Reply("handleTaskByID", method, path, body,
                        IF p.n \in DOMAIN task THEN "200" ELSE "500",
                        "MarkTaskAsDone", p.n),
          task |-> MarkTaskAsDone(p.n)]
    ELSE [web |-> Reply("handleTaskByID", method, path, body,
                        IF method = "PUT" THEN "400" ELSE "405", "none", 0),
          task |-> task]

\* handleTaskByID: the id is what follows the first 12 characters.
TaskByID(method, path, body) ==
    IF Len(path) < TaskPrefixLen
    THEN [web |-> Reply("handleTaskByID", method, path, body, "400", "none", 0),
          task |-> task]
    ELSE TaskByParsed(method, path, body, ParseUint(Drop(path, TaskPrefixLen)))

handleTaskByID(method, path, body) ==
    /\ Handler(path) = "handleTaskByID"
    /\ \E r \in {TaskByID(method, path, IF method = "PUT" THEN body ELSE "")} :
          /\ web' = r.web
          /\ task' = r.task
    /\ UNCHANGED <<action, seq, today, proc, last, project, uiVars>>

\* The store and the outcome of an operation on table action.
Outcome(ret, warn, newID, snap, rows, lastID) ==
    [ret |-> ret, warn |-> warn, newID |-> newID, snap |-> snap,
     action |-> rows, seq |-> lastID]

\* MarkActionAsDone after the status write, with the result c of the
\* recurrence step on the action a as read.
MarkedDone(id, a, c) ==
    Outcome(DoneReturn(c.err), c.err, c.id, a,
            IF c.id # 0
            THEN [action EXCEPT ![id].status_id = DoneStatus] @@ (c.id :> c.row)
            ELSE [action EXCEPT ![id].status_id = DoneStatus],
            IF c.id # 0 THEN c.id ELSE seq)

\* MarkActionAsDone run by one request from its read to its return, with a
\* database that does not fail: a is the action read.
MarkActionAsDone(id, a) ==
    IF IsNil(a)
    THEN Outcome("action not found", "none", 0, NilAction, action, seq)
    ELSE MarkedDone(id, a,
                    IF RepetitionConfigured(a)
                    THEN CreateNextRepeatedAction(a, FALSE)
                    ELSE [err |-> "none", id |-> 0, row |-> <<>>])

\* DeleteAction: an unknown id is an error.
DeleteAction(id) ==
    IF id \notin DOMAIN action
    THEN Outcome("action not found", "none", 0, NilAction, action, seq)
    ELSE Outcome("ok", "none", 0, NilAction, Without(action, id), seq)

\* handleActionByID for PUT {"action": "done"} after MarkActionAsDone gave d.
ActionDone(method, path, body, id, d) ==
    [web |-> Reply("handleActionByID", method, path, body,
                   IF d.ret = "ok" THEN "200" ELSE "500", "MarkActionAsDone", id),
     action |-> d.action,
     seq |-> d.seq]

\* handleActionByID for DELETE after DeleteAction gave d.
ActionDeleted(method, path, body, id, d) ==
    [web |-> Reply("handleActionByID", method, path, body,
                   IF d.ret = "ok" THEN "200" ELSE "500", "DeleteAction", id),
     action |-> d.action,
     seq |-> seq]

\* A response of handleActionByID that leaves the store alone.
ActionReply(method, path, body, code, op, id) ==
    [web |-> Reply("handleActionByID", method, path, body, code, op, id),
     action |-> action,
     seq |-> seq]

\* handleActionByID after strconv.ParseUint gave p.
ActionByParsed(method, path, body, p) ==
    IF p.err THEN ActionReply(method, path, body, "400", "none", 0)
    ELSE IF method = "GET"
    THEN ActionReply(method, path, body,
                     IF IsNil(GetActionByID(p.n)) THEN "404" ELSE "200",
                     "GetActionByID", p.n)
    ELSE IF method = "DELETE"
    THEN ActionDeleted(method, path, body, p.n, DeleteAction(p.n))
    ELSE IF method = "PUT" /\ body = "done"
    THEN ActionDone(method, path, body, p.n,
                    MarkActionAsDone(p.n, GetActionByID(p.n)))
    ELSE ActionReply(method, path, body,
                     IF method = "PUT" THEN "400" ELSE "405", "none", 0)

\* handleActionByID: the id is what follows the first 13 characters.
ActionByID(method, path, body) ==
    IF Len(path) < ActionPrefixLen
    THEN ActionReply(method, path, body, "400", "none", 0)
    ELSE ActionByParsed(method, path, body, ParseUint(Drop(path, ActionPrefixLen)))

handleActionByID(method, path, body) ==
    /\ Handler(path) = "handleActionByID"
    /\ \E r \in {ActionByID(method, path, IF method = "PUT" THEN body ELSE "")} :
          /\ web' = r.web
          /\ action' = r.action
          /\ seq' = r.seq
    /\ UNCHANGED <<today, proc, last, project, task, uiVars>>

\* A stored action that does not repeat.
PlainAction(name) ==
    [project_id       |-> NULL,
     name             |-> name,
     note             |-> "",
     due_date         |-> <<2024, 12, 30>>,
     status_id        |-> TodoStatus,
     repeat_count     |-> 0,
     repeat_interval  |-> "",
     repeat_pattern   |-> <<>>,
     repeat_until     |-> <<>>,
     parent_action_id |-> NULL]

\* The server starts on tables of MaxID rows each, none of them repeating;
\* the routes of the tasks API are served beside those of the actions API.
InitRoute ==
    /\ action = [id \in 1..MaxID |-> PlainAction("errand")]
    /\ seq = MaxID
    /\ today = StartDay
    /\ proc = [p \in Procs |-> Idle]
    /\ last = NoCall
    /\ project = [id \in 1..MaxID |-> [ID |-> id, Name |-> "home"]]
    /\ task = [id \in 1..MaxID |-> [ID |-> id, status_id |-> TodoStatus,
                                    RepeatCount |-> 0]]
    /\ web = NoRequest
    /\ UiOff

NextRoute ==
    \/ \E method \in Methods, path \in Paths(ProjectPattern) :
          handleProjectByID(method, path)
    \/ \E method \in Methods, path \in Paths(ActionPattern), body \in Bodies :
          handleActionByID(method, path, body)
    \/ \E method \in Methods, path \in Paths(TaskPattern), body \in Bodies :
          handleTaskByID(method, path, body)

SpecRoute == InitRoute /\ [][NextRoute]_vars

(***************************************************************************)
(* projector init: the Bubble Tea model of package ui.  The spinner only   *)
(* animates and is left out.  A Result holds what its message says (kind)  *)
(* and the table it names; strings.Contains on a message is the test of    *)
(* its kind.                                                               *)
(***************************************************************************)
\* The tables of createTableStep and checkTableSchemaStep, by tableIndex + 1.
Tables == <<"project", "status", "action", "tag", "action_tag">>

\* strings.Contains(msg.Message, "Database already exists")
ContainsDatabaseExists(msg) == msg.kind = "Database already exists"

\* strings.Contains(msg.Message, "schema differs")
ContainsSchemaDiffers(msg) == msg.kind = "schema differs"

\* tea.Quit
Quit == Cmd("Quit", 0)

\* The step that processes a table in the mode of model n.
TableStep(n, tableIndex) ==
    Cmd(IF n.schemaMode THEN "checkTableSchemaStep" ELSE "createTableStep", tableIndex)

\* Update, lines 90-118: the switch on m.step, whatever the result said.
Continue(n) ==
    IF n.step = 1
    THEN [m |-> [n EXCEPT !.tableIndex = 0], cmd |-> TableStep(n, 0)]
    ELSE IF n.step \in 2..7
    THEN IF n.step = 3 /\ n.tableIndex = 1
         THEN [m |-> n,
               cmd |-> Cmd(IF n.schemaMode THEN "verifyStatusTableStep"
                           ELSE "seedStatusTableStep", 0)]
         ELSE IF n.tableIndex < 4
         THEN [m |-> [n EXCEPT !.tableIndex = @ + 1],
               cmd |-> TableStep(n, n.tableIndex + 1)]
         ELSE [m |-> n, cmd |-> Quit]
    ELSE [m |-> n, cmd |-> Cmd("nil", 0)]

\* Update, lines 84-87: a schema difference in schema mode quits.
Abort(n, msg) ==
    IF n.schemaMode /\ ContainsSchemaDiffers(msg) THEN [m |-> n, cmd |-> Quit]
    ELSE Continue(n)

\* Update, lines 75-81: the result is appended, the oldest dropped, the step
\* counted and schema mode entered.
Received(n, msg) ==
    [n EXCEPT !.results = Append(Tail(@), msg),
              !.step = @ + 1,
              !.schemaMode = @ \/ (n.step + 1 = 1 /\ ContainsDatabaseExists(msg))]

\* Update for a models.Result: the new model and the command returned.
Update(msg) == Abort(Received(m, msg), msg)

\* The command that was issued has run and its result reaches Update.
Deliver(msg) ==
    /\ \E u \in {Update(msg)} :
          /\ m' = u.m
          /\ cmd' = u.cmd
    /\ msgs' = Append(msgs, msg)
    /\ UNCHANGED <<action, seq, today, proc, last, serverVars>>

\* runInitStep: the database exists, or CreateDatabase is called.
runInitStep(exists, fail) ==
    /\ cmd.name = "runInitStep"
    /\ Deliver(IF exists THEN Result("Database already exists", "")
               ELSE IF fail THEN Result("Failed to create database", "")
               ELSE Result("Database created", ""))

\* createTableStep(tableIndex): CreateTable fails or not.
createTableStep(fail) ==
    /\ cmd.name = "createTableStep"
    /\ Deliver(Result(IF fail THEN "Failed to create table" ELSE "created",
                      Tables[cmd.tableIndex + 1]))

\* checkTableSchemaStep(tableIndex): CheckTableSchema fails or not.
checkTableSchemaStep(differs) ==
    /\ cmd.name = "checkTableSchemaStep"
    /\ Deliver(Result(IF differs THEN "schema differs" ELSE "schema matches",
                      Tables[cmd.tableIndex + 1]))

seedStatusTableStep ==
    /\ cmd.name = "seedStatusTableStep"
    /\ Deliver(Result("seeded", "status"))

\* The three results of verifyStatusTableStep.
Verdicts == {"Failed to verify status table data", "data verified", "data incomplete"}

verifyStatusTableStep(verdict) ==
    /\ cmd.name = "verifyStatusTableStep"
    /\ Deliver(Result(verdict, "status"))

\* Update for a tea.KeyMsg, while the program runs.
KeyMsg ==
    /\ cmd.name # "Quit"
    /\ m' = [m EXCEPT !.quitting = TRUE]
    /\ cmd' = Quit
    /\ UNCHANGED <<msgs, action, seq, today, proc, last, serverVars>>

\* View: the line under the results.
View(n) ==
    IF \E i \in 1..Len(n.results) : ContainsSchemaDiffers(n.results[i])
    THEN "Initialization aborted due to schema differences!"
    ELSE IF n.step >= 7 /\ n.tableIndex >= 4 THEN "Initialization complete!"
    ELSE "Press any key to exit"

InitUi ==
    /\ action = <<>>
    /\ seq = 0
    /\ today = StartDay
    /\ proc = [p \in Procs |-> Idle]
    /\ last = NoCall
    /\ ServerStart
    /\ UiStart

NextUi ==
    \/ \E exists \in BOOLEAN, fail \in BOOLEAN : runInitStep(exists, fail)
    \/ \E fail \in BOOLEAN : createTableStep(fail)
    \/ \E differs \in BOOLEAN : checkTableSchemaStep(differs)
    \/ seedStatusTableStep
    \/ \E verdict \in Verdicts : verifyStatusTableStep(verdict)
    \/ KeyMsg

SpecUi == InitUi /\ [][NextUi]_vars

(***************************************************************************)
(* The chain relation.                                                     *)
(***************************************************************************)
\* The rows generated from row a.
Successors(a) == {c \in DOMAIN action : action[c].parent_action_id = <<a>>}

\* The rows the chain controller created.
Generated == {c \in DOMAIN action : action[c].parent_action_id # NULL}

\* The row c was generated from.
Parent(c) == action[c].parent_action_id[1]

\* The number of parent links from row c to its directly created ancestor.
RECURSIVE Depth(_)
Depth(c) == IF action[c].parent_action_id = NULL THEN 0 ELSE 1 + Depth(Parent(c))

\* The directly created ancestor of row c.
RECURSIVE Root(_)
Root(c) == IF action[c].parent_action_id = NULL THEN c ELSE Root(Parent(c))

\* The due date of row c as a time; only for a due date that parses.
Due(c) == ParseDate(action[c].due_date).t

(***************************************************************************)
(* C1.  Once the status write of MarkActionAsDone has succeeded, the call  *)
(* returns success and the action stays done, whatever the recurrence step *)
(* did: its error is neither returned nor does it undo the status.         *)
(***************************************************************************)
C1_CompletionSucceeds ==
    /\ \A p \in Procs :
          proc[p].pc = "updated" => action[proc[p].id].status_id = DoneStatus
    /\ (last.op = "done" /\ last.snap # NilAction) =>
          /\ last.ret = "ok"
          /\ action[last.id].status_id = DoneStatus

\* A finished call whose recurrence step failed in each of the ways named.
C1_Witness ==
    /\ last.op = "done"
    /\ last.ret = "ok"
    /\ last.warn \in {"action is not configured for repetition",
                      "no current due date", "invalid interval",
                      "repetition limit reached", "insert failed"}
    /\ action[last.id].status_id = DoneStatus

(***************************************************************************)
(* C2.  MarkActionAsDone on an id that names no row fails with "action not *)
(* found" and changes nothing in the store.                                *)
(***************************************************************************)
C2_NotFound ==
    [][\A p \in Procs, id \in 1..(MaxActions + 1) :
          (id \notin DOMAIN action /\ Load(p, id, FALSE)) =>
              /\ last'.ret = "action not found"
              /\ last'.id = id
              /\ action' = action
              /\ seq' = seq
              /\ proc' = proc]_vars

\* A call on an unknown id has returned, beside a non-empty store.
C2_Witness ==
    /\ last.op = "done"
    /\ last.ret = "action not found"
    /\ last.id \notin DOMAIN action
    /\ DOMAIN action # {}

(***************************************************************************)
(* C3.  Every action has at most one successor.                            *)
(***************************************************************************)
C3_AtMostOneSuccessor ==
    \A a \in DOMAIN action : Cardinality(Successors(a)) <= 1

(***************************************************************************)
(* C4.  A successor is created with the initial status todo.               *)
(***************************************************************************)
C4_SuccessorCreatedTodo ==
    [][\A c \in (DOMAIN action') \ (DOMAIN action) :
          action'[c].parent_action_id # NULL =>
              action'[c].status_id = TodoStatus]_vars

(***************************************************************************)
(* C5.  The stored due date of every successor is strictly later than the  *)
(* stored due date of the action it was generated from.                    *)
(***************************************************************************)
C5_DueDateAdvances ==
    \A c \in Generated : Due(c) > Due(Parent(c))

(***************************************************************************)
(* C6.  When the chain controller's decision succeeds on the action read   *)
(* and the INSERT does not fail, the recurrence step leaves exactly one    *)
(* new row, whose due date is the date of the computed next due date.      *)
(***************************************************************************)
C6_SuccessorCreated ==
    [][\A p \in Procs :
          (/\ proc[p].pc = "updated"
           /\ Advance(proc[p].snap).err = "none"
           /\ Chain(p, FALSE)) =>
              \E c \in DOMAIN action' :
                  /\ (DOMAIN action') \ (DOMAIN action) = {c}
                  /\ action'[c].due_date = FormatDate(Advance(proc[p].snap).next)]_vars

(***************************************************************************)
(* C7.  An action with repeat_count 0 or no repeat_interval gets no        *)
(* successor: the chain controller refuses it as not configured for        *)
(* repetition, and no row names it as its parent.                          *)
(***************************************************************************)
C7_UnconfiguredNoSuccessor ==
    \A a \in DOMAIN action :
        (action[a].repeat_count = 0 \/ action[a].repeat_interval = "") =>
            /\ Advance(GetActionByID(a)).err = "action is not configured for repetition"
            /\ Successors(a) = {}

\* A completed action at the end of its chain, and one without interval.
C7_Witness ==
    /\ \E a \in Generated :
          action[a].repeat_count = 0 /\ action[a].status_id = DoneStatus
    /\ last.op = "done" /\ last.ret = "ok" /\ last.newID = 0
    /\ last.snap # NilAction

(***************************************************************************)
(* C8.  The repeat_count of every successor is exactly one less than the   *)
(* repeat_count of the action it was generated from, and never negative.   *)
(***************************************************************************)
C8_RepeatCountDecrements ==
    \A c \in Generated :
        /\ action[c].repeat_count = action[Parent(c)].repeat_count - 1
        /\ action[c].repeat_count >= 0

C8_Witness ==
    \E c \in Generated : \E d \in Successors(c) : action[d].repeat_count = 0

(***************************************************************************)
(* C9.  A chain started with repeat_count n halts: a row reached by k      *)
(* advances has repeat_count n - k, so no row lies deeper than n, the row  *)
(* at depth n has repeat_count 0 and is refused by the chain controller,   *)
(* and a chain grown at its newest row only has at most n successors.      *)
(***************************************************************************)
C9_ChainHalts ==
    /\ \A c \in DOMAIN action :
          LET n == action[Root(c)].repeat_count IN
          /\ Depth(c) + action[c].repeat_count = n
          /\ Depth(c) <= n
          /\ Depth(c) = n =>
                Advance(GetActionByID(c)).err = "action is not configured for repetition"
    /\ (\A a \in DOMAIN action : Cardinality(Successors(a)) <= 1) =>
          \A r \in DOMAIN action :
              Cardinality({c \in Generated : Root(c) = r}) <= action[r].repeat_count

\* A chain of two advances run to its end, and its last row completed.
C9_Witness ==
    \E c \in Generated :
        /\ Depth(c) = action[Root(c)].repeat_count
        /\ Depth(c) >= 2
        /\ action[c].status_id = DoneStatus
        /\ \A a \in DOMAIN action : Cardinality(Successors(a)) <= 1

(***************************************************************************)
(* C10.  No successor of an action with a repeat_until date has a due date *)
(* later than that date.                                                   *)
(***************************************************************************)
C10_UntilIsUpperBound ==
    \A c \in Generated :
        ~ParseDate(action[c].repeat_until).err =>
            Due(c) <= ParseDate(action[c].repeat_until).t

\* A successor due exactly on its repeat_until date, whose own advance was
\* refused as beyond it.
C10_Witness ==
    /\ \E c \in Generated :
          /\ ~ParseDate(action[c].repeat_until).err
          /\ Due(c) = ParseDate(action[c].repeat_until).t
    /\ last.warn = "repetition limit reached"

(***************************************************************************)
(* C11.  For a call that reached the repeat-until check with a             *)
(* repeat_until date: the recurrence step ends with "repetition limit      *)
(* reached", inserting nothing, exactly when the computed next due date is *)
(* after the repeat_until date; a next due date equal to it is accepted    *)
(* and handed on as the successor's due date.                              *)
(***************************************************************************)
\* The next due date computed for the action of the call that finished last.
LastNext ==
    calculateNextDueDate(last.snap.DueDate.String,
                         last.snap.RepeatInterval.String,
                         last.snap.RepeatPattern.String)

\* The repeat_until date of the action of the call that finished last.
LastUntil == ParseDate(last.snap.RepeatUntil.String)

C11_UntilBoundary ==
    (/\ last.op = "done"
     /\ last.snap # NilAction
     /\ ~Unconfigured(last.snap)
     /\ ~LastUntil.err
     /\ LastNext.err = "none") =>
        /\ (last.warn = "repetition limit reached") <=> (LastNext.t > LastUntil.t)
        /\ (last.warn = "repetition limit reached") => last.newID = 0
        /\ (LastNext.t = LastUntil.t) =>
              /\ Advance(last.snap) = [err |-> "none", next |-> LastUntil.t]
              /\ last.warn \in {"none", "date is in the past",
                                "due date validation failed", "insert failed"}
              /\ last.newID # 0 =>
                    action[last.newID].due_date = last.snap.RepeatUntil.String

\* The last call inserted a successor due exactly on the repeat_until date.
C11_Witness ==
    /\ last.op = "done"
    /\ last.newID # 0
    /\ ~LastUntil.err
    /\ LastNext.t = LastUntil.t
    /\ action[last.newID].due_date = last.snap.RepeatUntil.String

(***************************************************************************)
(* C12.  In the chain of the action due 2024-12-30 (a Monday) repeating    *)
(* weekly on "mon,wed,fri" with repeat_count 10, the first successor is    *)
(* due 2025-01-01 with repeat_count 9, its successor 2025-01-03 with 8,    *)
(* and the successor of that one 2025-01-06 with 7.                        *)
(***************************************************************************)
C12_Scenario ==
    \A c \in DOMAIN action :
        (/\ action[Root(c)].due_date = <<2024, 12, 30>>
         /\ action[Root(c)].repeat_interval = "week"
         /\ action[Root(c)].repeat_pattern = MonWedFri
         /\ action[Root(c)].repeat_count = 10) =>
            /\ Depth(c) = 1 =>
                  action[c].due_date = <<2025, 1, 1>> /\ action[c].repeat_count = 9
            /\ Depth(c) = 2 =>
                  action[c].due_date = <<2025, 1, 3>> /\ action[c].repeat_count = 8
            /\ Depth(c) = 3 =>
                  action[c].due_date = <<2025, 1, 6>> /\ action[c].repeat_count = 7

(***************************************************************************)
(* C13.  For a weekly action on "mon,tue,wed,thu,fri" due on a Friday, the *)
(* next due date is the Monday three days later.                           *)
(***************************************************************************)
\* The next due date computed for row c.
NextOf(c) ==
    calculateNextDueDate(action[c].due_date, action[c].repeat_interval,
                         action[c].repeat_pattern)

C13_FridayToMonday ==
    \A c \in Generated :
        (/\ action[Parent(c)].repeat_interval = "week"
         /\ action[Parent(c)].repeat_pattern = WorkWeek
         /\ Weekday(Due(Parent(c))) = 5) =>
            /\ NextOf(Parent(c)).err = "none"
            /\ NextOf(Parent(c)).t = Due(Parent(c)) + 3 * MinutesPerDay
            /\ Weekday(Due(c)) = 1
            /\ Due(c) = Due(Parent(c)) + 3 * MinutesPerDay

(***************************************************************************)
(* C14.  For a weekly action whose pattern parses to exactly one weekday,  *)
(* the next due date is the due date plus 7 days, whatever the weekday of  *)
(* the due date.                                                           *)
(***************************************************************************)
\* The weekdays the pattern of row c parses to.
PatternDays(c) == parseWeeklyPattern(action[c].repeat_pattern)

\* The slice days names one weekday (possibly more than once).
OneWeekday(days) == days # <<>> /\ \A i \in 1..Len(days) : days[i] = days[1]

C14_OneWeekdaySevenDays ==
    \A c \in Generated :
        (/\ action[Parent(c)].repeat_interval = "week"
         /\ OneWeekday(PatternDays(Parent(c)))) =>
            /\ NextOf(Parent(c)).t = Due(Parent(c)) + 7 * MinutesPerDay
            /\ Due(c) = Due(Parent(c)) + 7 * MinutesPerDay

\* The pattern of weekly row c parses to one weekday, and the row is due on
\* that weekday.
DueOnItsDay(c, days) ==
    /\ action[c].repeat_interval = "week"
    /\ OneWeekday(days)
    /\ Weekday(Due(c)) = days[1]

\* C14 amended: for a weekly action whose pattern parses to exactly one
\* weekday and whose due date falls on that weekday, the next due date is
\* the due date plus 7 days.
\* next, the next due date computed for row c, is a week after its due date.
WeekLater(c, next) == next.err = "none" /\ next.t = Due(c) + 7 * MinutesPerDay

C14_OneWeekdayOnItsDay ==
    /\ \A c \in DOMAIN action :
          DueOnItsDay(c, PatternDays(c)) => WeekLater(c, NextOf(c))
    /\ \A c \in Generated :
          DueOnItsDay(Parent(c), PatternDays(Parent(c))) =>
              Due(c) = Due(Parent(c)) + 7 * MinutesPerDay

\* Two advances of a one-weekday action due on its weekday.
C14_Witness ==
    \E c \in Generated :
        /\ Parent(c) \in Generated
        /\ DueOnItsDay(Parent(c), PatternDays(Parent(c)))
        /\ Due(c) = Due(Parent(c)) + 7 * MinutesPerDay

(***************************************************************************)
(* C15.  For each of the six intervals and every due date that parses, the *)
(* calculator succeeds and its result is strictly later than the due date. *)
(***************************************************************************)
Intervals == {"minute", "hour", "day", "week", "month", "year"}

\* next, the next due date computed for row c, is later than its due date p.
LaterNext(c, p, next) ==
    (action[c].repeat_interval \in Intervals /\ ~p.err) =>
        /\ next.err = "none"
        /\ next.t > p.t

C15_StrictlyLater ==
    \A c \in DOMAIN action : LaterNext(c, ParseDate(action[c].due_date), NextOf(c))

\* A weekly action with a pattern and no pattern day left in its week has
\* been advanced.
C15_Witness ==
    \E c \in Generated :
        /\ action[c].repeat_interval = "week"
        /\ PatternDays(c) # <<>>
        /\ \A i \in 1..Len(PatternDays(c)) :
              PatternDays(c)[i] <= Weekday(Due(Parent(c)))
        /\ Due(c) > Due(Parent(c))

(***************************************************************************)
(* C16.  The row the recurrence step inserts has the name, note, project,  *)
(* repeat interval, repeat pattern and repeat-until of the action the call *)
(* completes, and names that action as its parent.                         *)
(***************************************************************************)
C16_SuccessorCopies ==
    [][\A c \in (DOMAIN action') \ (DOMAIN action) :
          /\ proc[Caller].pc = "updated"
          /\ action'[c].parent_action_id = <<proc[Caller].id>>
          /\ action'[c].name = action[proc[Caller].id].name
          /\ action'[c].note = action[proc[Caller].id].note
          /\ action'[c].project_id = action[proc[Caller].id].project_id
          /\ action'[c].repeat_interval = action[proc[Caller].id].repeat_interval
          /\ action'[c].repeat_pattern = action[proc[Caller].id].repeat_pattern
          /\ action'[c].repeat_until = action[proc[Caller].id].repeat_until]_vars

\* A successor of an action that has a project and a repeat-until date.
C16_Witness ==
    \E c \in Generated :
        /\ action[c].project_id = <<1>>
        /\ action[c].repeat_until = <<2025, 2, 1>>
        /\ action[c].repeat_pattern = TuesdayThursday
        /\ action[c].name = "report"

(***************************************************************************)
(* C17.  A fault between the status write and the recurrence step leaves   *)
(* the action done without successor, and no later operation gives it one. *)
(***************************************************************************)
C17_FaultBreaksChain ==
    [][/\ \A p \in Procs :
             (proc[p].pc = "updated" /\ Fault(p)) =>
                 /\ action'[proc[p].id].status_id = DoneStatus
                 /\ DOMAIN action' = DOMAIN action
       /\ \A a \in DOMAIN action :
             (/\ last.op = "done" /\ last.ret = "fault" /\ last.id = a
              /\ Successors(a) = {}) =>
                 {c \in DOMAIN action' : action'[c].parent_action_id = <<a>>} = {}]_vars

(***************************************************************************)
(* C18.  The status write comes before the recurrence step: a call that    *)
(* has reached the recurrence step has its action done, and every action   *)
(* that has a successor is done.                                           *)
(***************************************************************************)
C18_SuccessorImpliesDone ==
    /\ \A p \in Procs :
          proc[p].pc = "updated" => action[proc[p].id].status_id = DoneStatus
    /\ \A a \in DOMAIN action :
          Successors(a) # {} => action[a].status_id = DoneStatus

\* A successor was inserted while another call on its parent is in flight.
C18_Witness ==
    \E c \in Generated : \E p \in Procs :
        /\ proc[p].pc = "loaded"
        /\ proc[p].id = Parent(c)
        /\ proc[p].snap.StatusID = TodoStatus
        /\ action[Parent(c)].status_id = DoneStatus

(***************************************************************************)
(* C19.  The status of a stored action changes only in the status write of *)
(* MarkActionAsDone on that action, from todo to done, and an action that  *)
(* is done stays done.                                                     *)
(***************************************************************************)
C19_DoneIsTerminal ==
    [][\A a \in DOMAIN action :
          /\ a \in DOMAIN action'
          /\ action[a].status_id = DoneStatus => action'[a].status_id = DoneStatus
          /\ action'[a].status_id # action[a].status_id =>
                /\ action[a].status_id = TodoStatus
                /\ action'[a].status_id = DoneStatus
                /\ \E p \in Procs :
                      /\ proc[p].pc = "loaded" /\ proc[p].id = a
                      /\ proc'[p].pc = "updated"]_vars

\* An action that was already done has been completed once more.
C19_Witness ==
    /\ last.op = "done"
    /\ last.ret = "ok"
    /\ last.snap # NilAction
    /\ last.snap.StatusID = DoneStatus
    /\ action[last.id].status_id = DoneStatus

(***************************************************************************)
(* C20.  parseWeeklyPattern lower-cases and trims the comma-separated      *)
(* parts, maps them through its table and drops the parts it does not      *)
(* know, without an error: "m,w,f" gives 1,3,5; "Tuesday, Thursday" gives  *)
(* 2,4; "xyz,mon" gives 1; the letters t, r, s, u are Tuesday, Thursday,   *)
(* Saturday and Sunday (0).                                                *)
(***************************************************************************)
\* What the pattern of a row has to parse to.
Expected(pattern, days) ==
    /\ \A i \in 1..Len(days) : days[i] \in 0..6
    /\ pattern = MWF => days = <<1, 3, 5>>
    /\ pattern = TuesdayThursday => days = <<2, 4>>
    /\ pattern = XyzMon => days = <<1>>
    /\ pattern = Letters => days = <<0, 2, 4, 6>>
    /\ pattern = Xyz => days = <<>>
    /\ pattern = MonWedFri => days = <<1, 3, 5>>
    /\ pattern = WorkWeek => days = <<1, 2, 3, 4, 5>>
    /\ pattern = Fri => days = <<5>>

C20_ParserTable ==
    \A c \in DOMAIN action :
        /\ Expected(action[c].repeat_pattern, PatternDays(c))
        /\ (action[c].repeat_interval = "week" /\ ~ParseDate(action[c].due_date).err)
              => NextOf(c).err = "none"

\* Actions with "Tuesday, Thursday" and with "xyz,mon" advanced onto a day
\* of their pattern.
C20_Witness ==
    \E c \in Generated :
        /\ action[c].repeat_pattern \in {TuesdayThursday, XyzMon, MWF, Letters}
        /\ \E i \in 1..Len(PatternDays(c)) : PatternDays(c)[i] = Weekday(Due(c))
        /\ action[c].repeat_pattern = TuesdayThursday => Weekday(Due(c)) = 4

(***************************************************************************)
(* C21.  The weekdays parseWeeklyPattern returns are in ascending order    *)
(* without a weekday twice, and there are none for a pattern without a     *)
(* recognised part.                                                        *)
(***************************************************************************)
StrictlyAscending(days) == \A i \in 1..(Len(days) - 1) : days[i] < days[i + 1]

C21_NoDuplicates ==
    \A c \in Generated :
        /\ StrictlyAscending(PatternDays(Parent(c)))
        /\ action[Parent(c)].repeat_pattern \in {<<>>, Xyz} => PatternDays(Parent(c)) = <<>>

(***************************************************************************)
(* C22.  For an action without due date, or with a due date that is no     *)
(* YYYY-MM-DD date, calculateNextDueDate fails, CreateNextRepeatedAction   *)
(* returns that error and no successor is inserted.                        *)
(***************************************************************************)
\* The action of row a as read, had its due date column the text d.
WithDue(a, d) == [GetActionByID(a) EXCEPT !.DueDate = NullString(d)]

InvalidAnchor == {"no current due date", "parse error"}

C22_InvalidAnchor ==
    /\ (/\ last.op = "done"
        /\ last.snap # NilAction
        /\ ~Unconfigured(last.snap)
        /\ ParseDate(last.snap.DueDate.String).err) =>
           /\ last.warn \in InvalidAnchor
           /\ last.newID = 0
           /\ Successors(last.id) = {}
    /\ \A a \in DOMAIN action : \A d \in DueDates :
          (~Unconfigured(WithDue(a, d)) /\ ParseDate(d).err) =>
              /\ calculateNextDueDate(d, action[a].repeat_interval,
                                      action[a].repeat_pattern).err \in InvalidAnchor
              /\ Advance(WithDue(a, d)).err \in InvalidAnchor
              /\ CreateNextRepeatedAction(WithDue(a, d), FALSE).id = 0

\* A recurring action without due date was completed.
C22_Witness ==
    /\ last.op = "done"
    /\ last.ret = "ok"
    /\ last.warn = "no current due date"
    /\ last.snap.RepeatCount > 0
    /\ action[last.id].due_date = <<>>
    /\ Successors(last.id) = {}

(***************************************************************************)
(* C24.  For a weekly action whose pattern has a weekday later in the week *)
(* than the weekday cw of its due date, the next due date is the due date  *)
(* plus (the smallest such weekday - cw) days, a date in the same          *)
(* Sunday-to-Saturday week.                                                *)
(***************************************************************************)
\* The number of the Sunday-to-Saturday week the time t lies in.
WeekOf(t) == ((t \div MinutesPerDay) + 4) \div 7

\* The weekdays of the slice days that are later in the week than cw.
Later(days, cw) == {days[i] : i \in 1..Len(days)} \cap ((cw + 1)..6)

Min(S) == CHOOSE x \in S : \A y \in S : x <= y

\* The date the same-week rule gives for the due date t and the slice days.
SameWeekDate(t, days) ==
    t + (Min(Later(days, Weekday(t))) - Weekday(t)) * MinutesPerDay

\* Row c is weekly and its pattern has a weekday later in the week of its due date.
HasLater(c, days) ==
    /\ action[c].repeat_interval = "week"
    /\ Later(days, Weekday(Due(c))) # {}

\* next, the next due date computed for row c with the slice days, follows
\* the same-week rule.
SameWeekNext(c, days, next) ==
    HasLater(c, days) =>
        /\ next.err = "none"
        /\ next.t = SameWeekDate(Due(c), days)
        /\ WeekOf(next.t) = WeekOf(Due(c))

\* The due date of row c follows the same-week rule on its parent p with the
\* slice days.
SameWeekDue(c, p, days) == HasLater(p, days) => Due(c) = SameWeekDate(Due(p), days)

EarliestAfter(t, days) ==
    t + Min({k \in 1..7 : \E i \in 1..Len(days) :
                 days[i] = Weekday(t + k * MinutesPerDay)}) * MinutesPerDay

\* Row c is weekly with a pattern that names a weekday.
Patterned(c, days) == action[c].repeat_interval = "week" /\ days # <<>>

C27_EarliestMatch ==
    \A c \in Generated :
        Patterned(Parent(c), PatternDays(Parent(c))) =>
            /\ NextOf(Parent(c)).t = EarliestAfter(Due(Parent(c)), PatternDays(Parent(c)))
            /\ Due(c) = EarliestAfter(Due(Parent(c)), PatternDays(Parent(c)))

(***************************************************************************)
(* C28.  For a weekly action with a non-empty parsed pattern the weekday   *)
(* of the next due date is in the pattern, so every successor in its chain *)
(* is due on a weekday of the pattern.                                     *)
(***************************************************************************)
\* The weekday of the time t is in the slice days.
OnPattern(t, days) == \E i \in 1..Len(days) : days[i] = Weekday(t)

\* next, the next due date computed for row c with the slice days, and the
\* due date of c if c was generated, are on a weekday of the pattern.
OnPatternRow(c, days, next) ==
    Patterned(c, days) =>
        /\ next.err = "none"
        /\ OnPattern(next.t, days)
        /\ c \in Generated => OnPattern(Due(c), days)

C25_OnlyStatusChanges ==
    [][/\ \A a \in DOMAIN action :
             /\ a \in DOMAIN action'
             /\ [action'[a] EXCEPT !.status_id = action[a].status_id] = action[a]
             /\ action'[a] # action[a] =>
                   \E p \in Procs : proc[p].pc = "loaded" /\ proc[p].id = a
       /\ Cardinality((DOMAIN action') \ (DOMAIN action)) <= 1]_vars

\* The last call completed a successor and inserted the next one.
C25_Witness ==
    /\ last.op = "done"
    /\ last.newID # 0
    /\ last.id \in Generated
    /\ action[last.id].status_id = DoneStatus
    /\ action[Parent(last.id)].repeat_count = last.snap.RepeatCount + 1

(***************************************************************************)
(* C26.  Every parent_action_id names a stored action with a smaller id    *)
(* than the child's, so the parent links of every action end, after fewer  *)
(* links than its id, at a directly created action.                        *)
(***************************************************************************)
C26_ForwardOnly ==
    \A c \in Generated :
        /\ Parent(c) \in DOMAIN action
        /\ Parent(c) < c
        /\ Depth(c) < c
        /\ Root(c) \in (DOMAIN action) \ Generated

\* A chain of two links.
C26_Witness ==
    \E c \in Generated :
        /\ Parent(c) \in Generated
        /\ Root(c) < Parent(c)
        /\ Depth(c) = 2

(***************************************************************************)
(* C29.  When the status write of MarkActionAsDone fails, the call returns *)
(* that error, the store is unchanged and the recurrence step is not       *)
(* reached.                                                                *)
(***************************************************************************)
C29_UpdateFailure ==
    [][\A p \in Procs :
          /\ (proc[p].pc = "loaded" /\ proc'[p].pc = "updated") =>
                 action'[proc[p].id].status_id = DoneStatus
          /\ (proc[p].pc = "loaded" /\ proc'[p].pc = "idle") =>
                 /\ last'.op = "done"
                 /\ last'.id = proc[p].id
                 /\ last'.ret = "update failed"
                 /\ last'.newID = 0
                 /\ action' = action
                 /\ seq' = seq]_vars

\* The status write failed on a recurring action that is still todo and has
\* no successor.
C29_Witness ==
    /\ last.op = "done"
    /\ last.ret = "update failed"
    /\ action[last.id].status_id = TodoStatus
    /\ action[last.id].repeat_count > 0
    /\ action[last.id].repeat_interval = "day"
    /\ Successors(last.id) = {}
    /\ \A p \in Procs : proc[p].pc = "idle"

(***************************************************************************)
(* C23.  A request to a by-ID route whose path is the route's pattern      *)
(* followed by a decimal number n, with a method the route serves, makes   *)
(* the handler call the database function for that method on id n.         *)
(***************************************************************************)
\* The pattern of the route a handler serves.
PatternOf(handler) ==
    IF handler = "handleActionByID" THEN ActionPattern
    ELSE IF handler = "handleProjectByID" THEN ProjectPattern
    ELSE TaskPattern

\* The methods the by-ID route of a handler serves.
Served(handler) ==
    IF handler = "handleProjectByID" THEN {"GET", "DELETE"}
    ELSE {"GET", "PUT", "DELETE"}

\* The decimal number that follows the pattern in the path of request w.
Named(w) == ParseUint(Drop(w.path, Len(PatternOf(w.handler))))

\* Request w asks for an operation on the record it names.
ByID(w, named) ==
    /\ w.handler # "none"
    /\ w.method \in Served(w.handler)
    /\ w.method = "PUT" => w.body = "done"
    /\ ~named.err

C23_ExactID ==
    \E named \in {IF web.handler = "none" THEN [err |-> TRUE, n |-> 0] ELSE Named(web)} :
        ByID(web, named) => (web.op # "none" /\ web.id = named.n)

(***************************************************************************)
(* C30.  projector init shows "Initialization complete!" only when the     *)
(* database step and the steps of the five tables, in the order project,   *)
(* status, action, tag, action_tag, each reported success, and no create   *)
(* or check step reported a failure.                                       *)
(***************************************************************************)
\* The results that report a failed create or check step.
Failures == {"Failed to create database", "Failed to create table", "schema differs"}

\* Result i reports the database step's success.
DatabaseOK(i) == msgs[i].kind \in {"Database created", "Database already exists"}

\* Result i reports the success of the step of table t.
TableOK(i, t) == msgs[i].table = t /\ msgs[i].kind \in {"created", "schema matches"}

\* The successes were reported at positions d, then p[1] < ... < p[5].
AllSucceeded ==
    \E d \in 1..Len(msgs) :
        /\ DatabaseOK(d)
        /\ \E p \in [1..Len(Tables) -> 1..Len(msgs)] :
              /\ d < p[1]
              /\ \A k \in 1..Len(Tables) : TableOK(p[k], Tables[k])
              /\ \A k \in 1..(Len(Tables) - 1) : p[k] < p[k + 1]

C30_CompleteAfterSuccess ==
    View(m) = "Initialization complete!" =>
        /\ AllSucceeded
        /\ \A i \in 1..Len(msgs) : msgs[i].kind \notin Failures

====
